---- MODULE Spec2Model ----
(***************************************************************************)
(* Model of src/device.rs: SnpDevice, the smoltcp Device built on a UEFI   *)
(* SimpleNetwork handle, with its receive and transmit tokens.             *)
(*                                                                         *)
(* The SimpleNetwork handle is the environment: each call the adapter      *)
(* makes on it gets an outcome chosen from the outcomes the firmware       *)
(* interface can report.  Every adapter operation is one action; what it   *)
(* did (hardware calls, closure invocations, log lines, in program order)  *)
(* and what it returned is recorded in `last`.                             *)
(***************************************************************************)
EXTENDS Integers, Sequences, FiniteSets, TLC

\* ---- bounds of the model ------------------------------------------------
\* largest value of the const generic MAX_PACKET that is explored
MaxCap == 2
\* largest value of snp.mode().max_packet_size that is explored
MaxHwPacket == 3
\* bytes are 0..MaxByte
MaxByte == 1
\* receive tokens the stack may hold on to at once
MaxRxTokens == 1

Byte == 0..MaxByte
\* values a caller's closure may return (the generic R)
RetVals == {"r0", "r1"}

Min(a, b) == IF a <= b THEN a ELSE b

VARIABLES
    MAX_PACKET,     \* the const generic parameter of SnpDevice and its tokens
    dev,            \* "none": no SnpDevice value exists; "ready": Ok(Self { snp })
    rxToks,         \* SnpRxToken values the stack holds, oldest first
    hwWrote,        \* history: for each token of rxToks, the frame the hardware wrote
    txTok,          \* TRUE while the stack holds an SnpTxToken
    panicked,       \* TRUE after a panic
    last            \* the most recent operation: [op, arg, trace, ret]

vars == <<MAX_PACKET, dev, rxToks, hwWrote, txTok, panicked, last>>

\* ---- the SimpleNetwork handle (environment) -----------------------------
\* statuses a failing call can report
ErrStatus == {"NOT_READY", "DEVICE_ERROR"}

\* frames that can be queued in the hardware, one byte longer than the buffer included
Frames == UNION {[1..n -> Byte] : n \in 0..(MAX_PACKET + 1)}

\* what the hardware has for one receive call: a queued frame or a failing status
HwReceiveOutcomes ==
    {<<"frame", f>> : f \in Frames} \cup {<<"status", s>> : s \in ErrStatus}

\* snp.receive(&mut buffer, None, None, None, None): a queued frame that fits is
\* copied to the front of the buffer and its length returned; one that does not
\* fit is reported as BUFFER_TOO_SMALL; no frame or a failure is an Err status.
SimpleNetworkReceive(buffer, out) ==
    IF out[1] = "frame"
    THEN IF Len(out[2]) <= Len(buffer)
         THEN [buffer |-> [i \in 1..Len(buffer) |->
                              IF i <= Len(out[2]) THEN out[2][i] ELSE buffer[i]],
               result |-> <<"Ok", Len(out[2])>>]
         ELSE [buffer |-> buffer, result |-> <<"Err", "BUFFER_TOO_SMALL">>]
    ELSE [buffer |-> buffer, result |-> <<"Err", out[2]>>]

\* outcomes of snp.transmit and snp.receive_filters
HwCallResults == {<<"Ok">>} \cup {<<"Err", s>> : s \in ErrStatus}

\* ---- SnpDevice::new -----------------------------------------------------
\* the arguments of the receive_filters call
ReceiveFiltersArgs ==
    [enable |-> {"UNICAST", "MULTICAST", "BROADCAST"},
     disable |-> {},
     reset_mcast_filter |-> FALSE,
     mcast_filter |-> "None"]

\* variant: the result of receive_filters is discarded instead of propagated
NewResultIgnoresError(filterRes) == <<"Ok", "SnpDevice">>

\* `snp.receive_filters(..)?; Ok(Self { snp })`
NewResult(filterRes) ==
    IF filterRes[1] = "Err" THEN <<"Err", filterRes[2]>> ELSE <<"Ok", "SnpDevice">>

New ==
    /\ ~panicked
    /\ dev = "none"
    /\ \E filterRes \in HwCallResults :
         LET res == NewResult(filterRes) IN
         /\ dev' = IF res[1] = "Ok" THEN "ready" ELSE "none"
         /\ last' = [op |-> "new", arg |-> <<>>,
                     trace |-> <<[ev |-> "receive_filters",
                                  args |-> ReceiveFiltersArgs,
                                  result |-> filterRes]>>,
                     ret |-> res]
    /\ UNCHANGED <<MAX_PACKET, rxToks, hwWrote, txTok, panicked>>

\* ---- SnpDevice::receive -------------------------------------------------
\* `SnpRxToken { packet: [0; MAX_PACKET], size: 0 }`
RxInit == [packet |-> [i \in 1..MAX_PACKET |-> 0], size |-> 0]

\* the log line of the last match arm
RxErrorLog(status) == [ev |-> "log", level |-> "error", msg |-> "error during rx", status |-> status]

\* variant: the NOT_READY arm is missing, every failure is logged
ReceiveMatchLogsAll(rx, result) ==
    IF result[1] = "Ok"
    THEN [ret |-> <<"Some", [rx EXCEPT !.size = result[2]], "SnpTxToken">>, log |-> <<>>]
    ELSE [ret |-> <<"None">>, log |-> <<RxErrorLog(result[2])>>]

\* variant: the last arm logs and then hands out the token all the same
ReceiveMatchTokenOnError(rx, result) ==
    IF result[1] = "Ok"
    THEN [ret |-> <<"Some", [rx EXCEPT !.size = result[2]], "SnpTxToken">>, log |-> <<>>]
    ELSE IF result[2] = "NOT_READY"
         THEN [ret |-> <<"None">>, log |-> <<>>]
         ELSE [ret |-> <<"Some", rx, "SnpTxToken">>, log |-> <<RxErrorLog(result[2])>>]

\* the match on the result of snp.receive: rx is the token whose packet the
\* hardware was given; the value is what receive returns and what it logs
ReceiveMatch(rx, result) ==
    IF result[1] = "Ok"
    THEN [ret |-> <<"Some", [rx EXCEPT !.size = result[2]], "SnpTxToken">>, log |-> <<>>]
    ELSE IF result[2] = "NOT_READY"
         THEN [ret |-> <<"None">>, log |-> <<>>]
         ELSE [ret |-> <<"None">>, log |-> <<RxErrorLog(result[2])>>]

Receive ==
    /\ ~panicked
    /\ dev = "ready"
    /\ ~txTok
    /\ Len(rxToks) < MaxRxTokens
    /\ \E out \in HwReceiveOutcomes :
         LET hw == SimpleNetworkReceive(RxInit.packet, out)
             m  == ReceiveMatch([RxInit EXCEPT !.packet = hw.buffer], hw.result)
         IN
         /\ last' = [op |-> "receive", arg |-> <<>>,
                     trace |-> <<[ev |-> "receive",
                                  capacity |-> Len(RxInit.packet),
                                  out |-> out,
                                  result |-> hw.result]>> \o m.log,
                     ret |-> m.ret]
         /\ IF m.ret[1] = "Some"
            THEN /\ rxToks' = Append(rxToks, m.ret[2])
                 /\ hwWrote' = Append(hwWrote, IF out[1] = "frame" THEN out[2] ELSE <<>>)
                 /\ txTok' = TRUE
            ELSE UNCHANGED <<rxToks, hwWrote, txTok>>
    /\ UNCHANGED <<MAX_PACKET, dev, panicked>>

\* ---- SnpDevice::transmit ------------------------------------------------
\* variant: transmit reports that the hardware is busy
TransmitRetNone == <<"None">>

\* `Some(SnpTxToken { snp: self.snp })`
TransmitRet == <<"Some", "SnpTxToken">>

Transmit ==
    /\ ~panicked
    /\ dev = "ready"
    /\ ~txTok
    /\ last' = [op |-> "transmit", arg |-> <<>>, trace |-> <<>>, ret |-> TransmitRet]
    /\ txTok' = (TransmitRet[1] = "Some")
    /\ UNCHANGED <<MAX_PACKET, dev, rxToks, hwWrote, panicked>>

\* ---- SnpDevice::capabilities --------------------------------------------
\* variant: the hardware's size is advertised as it is
MtuOfHardware(hwMax, maxPacket) == hwMax

\* `min(self.snp.mode().max_packet_size as usize, MAX_PACKET)`
Mtu(hwMax, maxPacket) == Min(hwMax, maxPacket)

Capabilities ==
    /\ ~panicked
    /\ dev = "ready"
    /\ ~txTok
    /\ \E max_packet_size \in 0..MaxHwPacket :
         last' = [op |-> "capabilities", arg |-> <<>>,
                  trace |-> <<[ev |-> "mode", max_packet_size |-> max_packet_size]>>,
                  ret |-> <<"Caps", [medium |-> "Ethernet",
                                     max_transmission_unit |-> Mtu(max_packet_size, MAX_PACKET)]>>]
    /\ UNCHANGED <<MAX_PACKET, dev, rxToks, hwWrote, txTok, panicked>>

\* ---- SnpRxToken::consume ------------------------------------------------
\* variant: the whole packet array is handed to the closure
RxViewWholePacket(tok) == <<"ok", tok.packet>>

\* `&self.packet[..self.size]`; slicing past the array panics
RxView(tok) ==
    IF tok.size <= Len(tok.packet)
    THEN <<"ok", SubSeq(tok.packet, 1, tok.size)>>
    ELSE <<"panic">>

\* removes element i of a sequence
RemoveAt(s, i) == SubSeq(s, 1, i - 1) \o SubSeq(s, i + 1, Len(s))

RxConsume ==
    /\ ~panicked
    /\ \E i \in 1..Len(rxToks), r \in RetVals :
         LET v == RxView(rxToks[i]) IN
         /\ IF v[1] = "ok"
            THEN /\ last' = [op |-> "rx_consume", arg |-> <<rxToks[i], hwWrote[i]>>,
                             trace |-> <<[ev |-> "f", saw |-> v[2], ret |-> r]>>,
                             ret |-> <<"Return", r>>]
                 /\ panicked' = FALSE
            ELSE /\ last' = [op |-> "rx_consume", arg |-> <<rxToks[i], hwWrote[i]>>,
                             trace |-> <<>>, ret |-> <<"Panic">>]
                 /\ panicked' = TRUE
         /\ rxToks' = RemoveAt(rxToks, i)
         /\ hwWrote' = RemoveAt(hwWrote, i)
    /\ UNCHANGED <<MAX_PACKET, dev, txTok>>

\* ---- SnpTxToken::consume ------------------------------------------------
\* variant: the buffer starts with what a received packet left behind
TxBufStale ==
    IF rxToks # <<>> THEN rxToks[1].packet ELSE [i \in 1..MAX_PACKET |-> 0]

\* `[0u8; MAX_PACKET]`
TxBuf == [i \in 1..MAX_PACKET |-> 0]

\* variant: a length past the array is cut down to the array
TxSliceTruncates(buf, len) == <<"ok", Min(len, Len(buf))>>

\* `&mut buf[..len]`: the range of buf that packet borrows; slicing past the array panics
TxSlice(buf, len) ==
    IF len <= Len(buf) THEN <<"ok", len>> ELSE <<"panic">>

\* closures the stack may pass for a slice of n bytes: the bytes they write
\* (leaving a byte of the zeroed buffer alone is writing 0)
Fillers(n) == [1..n -> Byte]

\* `f(packet)`: buf after the closure wrote through the slice of n bytes
ApplyFiller(f, buf, n) ==
    [i \in 1..Len(buf) |-> IF i <= n THEN f[i] ELSE buf[i]]

\* variant: the backing array is submitted instead of the slice
TxSubmittedWholeBuf(buf, n) == buf

\* the buffer argument of `self.snp.transmit(0, packet, None, None, None)`
TxSubmitted(buf, n) == SubSeq(buf, 1, n)

\* the log line of inspect_err
TxErrorLog(status) == [ev |-> "log", level |-> "error", msg |-> "error during tx", status |-> status]

\* variant: the transmit result is unwrapped instead of dropped
TxFinishUnwrap(result, txRes) ==
    IF txRes[1] = "Err"
    THEN [ret |-> <<"Panic">>, log |-> <<>>]
    ELSE [ret |-> <<"Return", result>>, log |-> <<>>]

\* `.inspect_err(|e| error!(..)).ok(); result`
TxFinish(result, txRes) ==
    [ret |-> <<"Return", result>>,
     log |-> IF txRes[1] = "Err" THEN <<TxErrorLog(txRes[2])>> ELSE <<>>]

TxConsume ==
    /\ ~panicked
    /\ txTok
    /\ \E len \in 0..(MAX_PACKET + 1), r \in RetVals, txRes \in HwCallResults :
       \E f \in Fillers(Min(len, MAX_PACKET)) :
         LET buf == TxBuf
             sl  == TxSlice(buf, len)
         IN
         IF sl[1] = "panic"
         THEN /\ last' = [op |-> "tx_consume", arg |-> <<len>>, trace |-> <<>>,
                          ret |-> <<"Panic">>]
              /\ panicked' = TRUE
         ELSE LET n      == sl[2]
                  filled == ApplyFiller(f, buf, n)
                  fin    == TxFinish(r, txRes)
              IN
              /\ last' = [op |-> "tx_consume", arg |-> <<len>>,
                          trace |-> <<[ev |-> "f", saw |-> SubSeq(buf, 1, n),
                                       left |-> SubSeq(filled, 1, n), ret |-> r],
                                      [ev |-> "transmit", header_size |-> 0,
                                       buffer |-> TxSubmitted(filled, n),
                                       result |-> txRes]>> \o fin.log,
                          ret |-> fin.ret]
              /\ panicked' = (fin.ret[1] = "Panic")
    /\ txTok' = FALSE
    /\ UNCHANGED <<MAX_PACKET, dev, rxToks, hwWrote>>

\* ---- tokens dropped unused ----------------------------------------------
DropRx ==
    /\ ~panicked
    /\ \E i \in 1..Len(rxToks) :
         /\ last' = [op |-> "drop_rx", arg |-> <<rxToks[i], hwWrote[i]>>,
                     trace |-> <<>>, ret |-> <<"Unit">>]
         /\ rxToks' = RemoveAt(rxToks, i)
         /\ hwWrote' = RemoveAt(hwWrote, i)
    /\ UNCHANGED <<MAX_PACKET, dev, txTok, panicked>>

DropTx ==
    /\ ~panicked
    /\ txTok
    /\ txTok' = FALSE
    /\ last' = [op |-> "drop_tx", arg |-> <<>>, trace |-> <<>>, ret |-> <<"Unit">>]
    /\ UNCHANGED <<MAX_PACKET, dev, rxToks, hwWrote, panicked>>

Init ==
    /\ MAX_PACKET \in 0..MaxCap
    /\ dev = "none"
    /\ rxToks = <<>>
    /\ hwWrote = <<>>
    /\ txTok = FALSE
    /\ panicked = FALSE
    /\ last = [op |-> "init", arg |-> <<>>, trace |-> <<>>, ret |-> <<"None">>]

Next ==
    \/ New
    \/ Receive
    \/ Transmit
    \/ Capabilities
    \/ RxConsume
    \/ TxConsume
    \/ DropRx
    \/ DropTx

Spec == Init /\ [][Next]_vars

TypeOK ==
    /\ MAX_PACKET \in 0..MaxCap
    /\ dev \in {"none", "ready"}
    /\ Len(rxToks) <= MaxRxTokens
    /\ Len(hwWrote) = Len(rxToks)
    /\ txTok \in BOOLEAN
    /\ panicked \in BOOLEAN
\* ---- properties ---------------------------------------------------------
\* the events of the last operation of one kind, in program order
Ev(kind) == SelectSeq(last.trace, LAMBDA e : e.ev = kind)

IsZero(b) == \A i \in 1..Len(b) : b[i] = 0

\* C1: a receive whose hardware call wrote a frame of n bytes returns a receive
\* token of size n, whose first n bytes are that frame, together with a transmit
\* token; consuming a receive token shows the closure exactly the bytes the
\* hardware wrote for it, size many, and never the rest of the packet array.
C1_ReceivedBytesExact ==
    /\ (last.op = "receive" /\ Len(Ev("receive")) = 1 /\ Ev("receive")[1].result[1] = "Ok") =>
          /\ last.ret[1] = "Some"
          /\ last.ret[3] = "SnpTxToken"
          /\ last.ret[2].size = Ev("receive")[1].result[2]
          /\ last.ret[2].size = Len(Ev("receive")[1].out[2])
          /\ SubSeq(last.ret[2].packet, 1, last.ret[2].size) = Ev("receive")[1].out[2]
          /\ txTok
    /\ last.op = "receive" => Len(Ev("receive")) = 1
    /\ last.op = "rx_consume" =>
          /\ Len(Ev("f")) = 1
          /\ Len(Ev("f")[1].saw) = last.arg[1].size
          /\ Ev("f")[1].saw = last.arg[2]
          /\ last.ret = <<"Return", Ev("f")[1].ret>>

\* C1 witness: a token holding a frame shorter than the packet array, with a
\* nonzero byte, was consumed
C1_Witness ==
    /\ last.op = "rx_consume"
    /\ Len(last.arg[2]) > 0
    /\ Len(last.arg[2]) < MAX_PACKET
    /\ ~IsZero(last.arg[2])
    /\ Len(Ev("f")) = 1

\* C2: a receive whose hardware call failed returns None for every status and
\* does not panic; it logs exactly one error line, carrying the status, when the
\* status is not NOT_READY, and logs nothing when it is.
C2_ReceiveErrorAbsorbed ==
    (last.op = "receive" /\ Ev("receive")[1].result[1] = "Err") =>
        /\ last.ret = <<"None">>
        /\ ~panicked
        /\ dev = "ready"
        /\ (Ev("receive")[1].result[2] = "NOT_READY") => (Ev("log") = <<>>)
        /\ (Ev("receive")[1].result[2] # "NOT_READY") =>
              Ev("log") = <<RxErrorLog(Ev("receive")[1].result[2])>>

\* C2 witness: a receive failed with a status other than NOT_READY and logged it
C2_Witness ==
    /\ last.op = "receive"
    /\ Ev("receive")[1].result = <<"Err", "DEVICE_ERROR">>
    /\ Len(Ev("log")) = 1

\* C3: consuming a transmit token with len <= MAX_PACKET runs the closure once,
\* then calls the hardware transmit once, with a buffer of len bytes that are
\* the bytes the closure left.
C3_TransmitSubmitsFilled ==
    (last.op = "tx_consume" /\ last.arg[1] <= MAX_PACKET) =>
        /\ Len(last.trace) >= 2
        /\ last.trace[1].ev = "f"
        /\ last.trace[2].ev = "transmit"
        /\ Len(Ev("f")) = 1
        /\ Len(Ev("transmit")) = 1
        /\ Len(last.trace[2].buffer) = last.arg[1]
        /\ last.trace[2].buffer = last.trace[1].left

\* C3 witness: a transmit of fewer bytes than the backing array, not all zero
C3_Witness ==
    /\ last.op = "tx_consume"
    /\ last.arg[1] > 0
    /\ last.arg[1] < MAX_PACKET
    /\ Len(Ev("transmit")) = 1
    /\ ~IsZero(Ev("transmit")[1].buffer)

\* C4: when the hardware transmit of a token's consume fails, consume returns
\* the closure's value as it does on success, does not panic, logs one error
\* line with the status, has called transmit once only, and the token is gone.
C4_TransmitErrorAbsorbed ==
    (last.op = "tx_consume" /\ Len(Ev("transmit")) > 0 /\ Ev("transmit")[1].result[1] = "Err") =>
        /\ last.ret = <<"Return", Ev("f")[1].ret>>
        /\ ~panicked
        /\ Len(Ev("transmit")) = 1
        /\ Ev("log") = <<TxErrorLog(Ev("transmit")[1].result[2])>>
        /\ ~txTok

\* C4 witness: a consume whose transmit failed
C4_Witness ==
    /\ last.op = "tx_consume"
    /\ Len(Ev("transmit")) = 1
    /\ Ev("transmit")[1].result = <<"Err", "DEVICE_ERROR">>
    /\ last.ret[1] = "Return"

\* C5: new makes one receive_filters call, enabling UNICAST, MULTICAST and
\* BROADCAST (PROMISCUOUS is not among them), disabling nothing, not resetting
\* the multicast filter and passing no filter list; if the call fails new
\* returns Err with the same status and no SnpDevice exists; while no SnpDevice
\* exists no token is held and no operation other than new has run.
C5_NewConfiguresOnceOrFails ==
    /\ last.op = "new" =>
          /\ Len(last.trace) = 1
          /\ last.trace[1].ev = "receive_filters"
          /\ last.trace[1].args.enable = {"UNICAST", "MULTICAST", "BROADCAST"}
          /\ last.trace[1].args.disable = {}
          /\ last.trace[1].args.reset_mcast_filter = FALSE
          /\ last.trace[1].args.mcast_filter = "None"
          /\ (last.trace[1].result[1] = "Err") =>
                 /\ last.ret = <<"Err", last.trace[1].result[2]>>
                 /\ dev = "none"
          /\ (last.trace[1].result[1] = "Ok") =>
                 /\ last.ret[1] = "Ok"
                 /\ dev = "ready"
    /\ dev = "none" =>
          /\ last.op \in {"init", "new"}
          /\ rxToks = <<>>
          /\ ~txTok

\* C5 witness: a construction whose receive_filters call failed
C5_Witness ==
    /\ last.op = "new"
    /\ last.trace[1].result = <<"Err", "DEVICE_ERROR">>
    /\ last.ret[1] = "Err"

\* C6: capabilities reports medium Ethernet and an MTU that is the smaller of
\* the hardware's max_packet_size and MAX_PACKET.
C6_MtuIsMin ==
    last.op = "capabilities" =>
        LET hwMax == Ev("mode")[1].max_packet_size
            mtu   == last.ret[2].max_transmission_unit
        IN  /\ last.ret[2].medium = "Ethernet"
            /\ mtu <= MAX_PACKET
            /\ mtu <= hwMax
            /\ mtu \in {hwMax, MAX_PACKET}

\* C6 witness: capabilities over hardware whose packet size exceeds MAX_PACKET
C6_Witness ==
    /\ last.op = "capabilities"
    /\ Ev("mode")[1].max_packet_size > MAX_PACKET
    /\ MAX_PACKET > 0

\* C7: transmit always returns a transmit token and calls nothing on the hardware.
C7_TransmitAlwaysToken ==
    last.op = "transmit" =>
        /\ last.ret = <<"Some", "SnpTxToken">>
        /\ last.trace = <<>>
        /\ txTok

\* C7 witness: transmit ran while the stack still held a received packet
C7_Witness ==
    /\ last.op = "transmit"
    /\ rxToks # <<>>
    /\ dev = "ready"

\* C8: for len <= MAX_PACKET the closure of a transmit token's consume is
\* handed len bytes, all zero.
C8_TransmitBufferZeroed ==
    (last.op = "tx_consume" /\ last.arg[1] <= MAX_PACKET) =>
        /\ Len(Ev("f")) = 1
        /\ Len(Ev("f")[1].saw) = last.arg[1]
        /\ IsZero(Ev("f")[1].saw)

\* C8 witness: a consume of a nonempty buffer while a received packet with
\* nonzero bytes is still held
C8_Witness ==
    /\ last.op = "tx_consume"
    /\ last.arg[1] > 0
    /\ Len(Ev("f")) = 1
    /\ rxToks # <<>>
    /\ ~IsZero(rxToks[1].packet)

\* C9: consuming a transmit token with len > MAX_PACKET panics: the closure is
\* not run and nothing is submitted to the hardware.
C9_OverlongTransmitPanics ==
    (last.op = "tx_consume" /\ last.arg[1] > MAX_PACKET) =>
        /\ last.ret = <<"Panic">>
        /\ panicked
        /\ Ev("f") = <<>>
        /\ Ev("transmit") = <<>>

\* C9 witness: a consume with len one past MAX_PACKET
C9_Witness ==
    /\ last.op = "tx_consume"
    /\ last.arg[1] = MAX_PACKET + 1
    /\ panicked

\* C10: every receive token has size <= MAX_PACKET, the length of its packet
\* array, so its consume never slices out of range; the hardware is offered a
\* buffer of MAX_PACKET bytes, and a queued frame longer than that yields an
\* error from the hardware, a log line, and no token.
C10_TokenSizeBounded ==
    /\ \A i \in 1..Len(rxToks) :
          /\ Len(rxToks[i].packet) = MAX_PACKET
          /\ rxToks[i].size <= MAX_PACKET
    /\ last.op = "rx_consume" => last.ret[1] = "Return"
    /\ last.op = "receive" =>
          /\ Ev("receive")[1].capacity = MAX_PACKET
          /\ (Ev("receive")[1].out[1] = "frame" /\ Len(Ev("receive")[1].out[2]) > MAX_PACKET) =>
                 /\ Ev("receive")[1].result[1] = "Err"
                 /\ last.ret = <<"None">>
                 /\ Len(Ev("log")) = 1

\* C10 witness: the hardware had a frame one byte longer than the buffer
C10_Witness ==
    /\ last.op = "receive"
    /\ Ev("receive")[1].out[1] = "frame"
    /\ Len(Ev("receive")[1].out[2]) = MAX_PACKET + 1
    /\ last.ret = <<"None">>
====
